---- MODULE Spec2Model ----
(***************************************************************************)
(* Model of the dustcollector Expedition: snapshot intake (getSnapshots,   *)
(* buildNuggets, describeVolumes, monitorQueue), correlation               *)
(* (populateNuggets), grouping (addBars) and plan building                 *)
(* (setRecommendations), as driven by Expedition.Start.                    *)
(***************************************************************************)
EXTENDS Integers, Sequences, FiniteSets, TLC

(***************************************************************************)
(* Provider world: the snapshots the account owns, in listing order.       *)
(* Times are day numbers.                                                  *)
(***************************************************************************)
Nil == "nil"

cutoffDate == 10

pageSize == 2

QueueCap == 10

Snapshots ==
  << [SnapshotId |-> "snap-A", VolumeId |-> "vol-1", VolumeSize |-> 20, StartTime |-> 1],
     [SnapshotId |-> "snap-B", VolumeId |-> "vol-2", VolumeSize |-> 8,  StartTime |-> 3],
     [SnapshotId |-> "snap-C", VolumeId |-> "vol-1", VolumeSize |-> 30, StartTime |-> 9],
     [SnapshotId |-> "snap-D", VolumeId |-> "vol-3", VolumeSize |-> 5,  StartTime |-> 10],
     [SnapshotId |-> "snap-E", VolumeId |-> "vol-3", VolumeSize |-> 5,  StartTime |-> 12] >>

VolumeIds == {"vol-1", "vol-2"}

\* createVolumePermission attribute of each snapshot at the provider
CreateVolumePermissions ==
  [s \in {Snapshots[i].SnapshotId : i \in 1..Len(Snapshots)} |->
     IF s = "snap-A" THEN << [Group |-> Nil, UserId |-> "acct-2"] >> ELSE << >>]

\* the configurations of the run: exp.maxPages and exp.volBatchSize
MaxMaxPages == 2

MaxVolBatchSize == 2

MaxPagesChoices == 1..MaxMaxPages

VolBatchSizeChoices == 1..MaxVolBatchSize

\* number of pages the provider serves for the listing
NumPages == (Len(Snapshots) + pageSize - 1) \div pageSize

\* the page-th page of the listing (DescribeSnapshotsPages, MaxResults = pageSize)
PageOf(page) ==
  LET lo == (page - 1) * pageSize + 1
      hi == IF page * pageSize < Len(Snapshots) THEN page * pageSize ELSE Len(Snapshots)
  IN  SubSeq(Snapshots, lo, hi)

(***************************************************************************)
(* Provider world: what the describe calls of populateNuggets can return.  *)
(* A block-device mapping is the snapshot id of its Ebs block, or Nil when *)
(* it has no Ebs block or no snapshot id.                                  *)
(***************************************************************************)
Public == [Group |-> "all", UserId |-> Nil]

Account(a) == [Group |-> Nil, UserId |-> a]

Image(id, bdms, perms) ==
  [ImageId |-> id, BlockDeviceMappings |-> bdms, LaunchPermissions |-> perms]

LaunchConfiguration(name, image, bdms) ==
  [LaunchConfigurationName |-> name, ImageId |-> image, BlockDeviceMappings |-> bdms]

LaunchTemplateVersion(name, image, bdms) ==
  [LaunchTemplateName |-> name, ImageId |-> image, BlockDeviceMappings |-> bdms]

Group(name, lc, lt) ==
  [AutoScalingGroupName |-> name, LaunchConfigurationName |-> lc, LaunchTemplateName |-> lt]

Ami1Choices ==
  { Image("ami-1", << Nil, "snap-A", "snap-C" >>, << >>),
    Image("ami-1", << "snap-A", "snap-B" >>, << Public, Account("acct-2") >>) }

Ami2Choices ==
  { Image("ami-2", << "snap-A" >>, << >>),
    Image("ami-2", << "snap-C" >>, << Account("acct-3") >>) }

ImageLists ==
  {<< >>} \cup {<< a >> : a \in Ami1Choices}
          \cup {<< a, b >> : a \in Ami1Choices, b \in Ami2Choices}

AllLcs ==
  << LaunchConfiguration("lc-1", "ami-1", << >>),
     LaunchConfiguration("lc-2", "ami-0", << Nil, "snap-A" >>) >>

AllLts == << LaunchTemplateVersion("lt-1", "ami-1", << "snap-C" >>) >>

AllAsgs == << Group("asg-1", "lc-1", Nil), Group("asg-2", Nil, "lt-1") >>

\* the provider has the first n entries of a list, for any n
Prefixes(all) == {SubSeq(all, 1, n) : n \in 0..Len(all)}

LcLists == Prefixes(AllLcs)

LtLists == Prefixes(AllLts)

AsgLists == Prefixes(AllAsgs)

(***************************************************************************)
(* Helpers (string slices)                                                 *)
(***************************************************************************)
containsStringPointer(strSlice, searchStr) ==
  \E i \in 1..Len(strSlice) : strSlice[i] = searchStr

containsString(strSlice, searchStr) ==
  \E i \in 1..Len(strSlice) : strSlice[i] = searchStr

RECURSIVE dedupeStringPointerFrom(_, _, _)
dedupeStringPointerFrom(strSlice, i, returnSlice) ==
  IF i > Len(strSlice) THEN returnSlice
  ELSE dedupeStringPointerFrom(strSlice, i + 1,
         IF ~containsStringPointer(returnSlice, strSlice[i])
           THEN Append(returnSlice, strSlice[i]) ELSE returnSlice)

dedupeStringPointer(strSlice) == dedupeStringPointerFrom(strSlice, 1, << >>)

RECURSIVE dedupeStringFrom(_, _, _)
dedupeStringFrom(strSlice, i, returnSlice) ==
  IF i > Len(strSlice) THEN returnSlice
  ELSE dedupeStringFrom(strSlice, i + 1,
         IF ~containsString(returnSlice, strSlice[i])
           THEN Append(returnSlice, strSlice[i]) ELSE returnSlice)

\* a dedupeString that returns its argument
dedupeStringKeepsAll(strSlice) == strSlice

dedupeString(strSlice) == dedupeStringFrom(strSlice, 1, << >>)

\* a makeBatchesStringPointer without the last partial batch
makeBatchesFullOnly(strSlice, batchSize) ==
  LET numBatches == Len(strSlice) \div batchSize
  IN  [i \in 1..numBatches |-> SubSeq(strSlice, batchSize * (i - 1) + 1, i * batchSize)]

makeBatchesStringPointer(strSlice, batchSize) ==
  LET numBatches == Len(strSlice) \div batchSize
      remainder  == Len(strSlice) % batchSize
      full == [i \in 1..numBatches |->
                 LET startIndex == IF i = 1 THEN 0 ELSE batchSize * (i - 1)
                     endIndex   == i * batchSize
                 IN  SubSeq(strSlice, startIndex + 1, endIndex)]
  IN  IF remainder > 0
        THEN Append(full, SubSeq(strSlice, Len(strSlice) - remainder + 1, Len(strSlice)))
        ELSE full

\* the concatenation of a sequence of slices (append(x, y...) in a loop)
RECURSIVE Flatten(_)
Flatten(ss) == IF ss = << >> THEN << >> ELSE Head(ss) \o Flatten(Tail(ss))

(***************************************************************************)
(* State                                                                   *)
(***************************************************************************)
VARIABLES
  provVols,        \* provider: the volumes that exist
  maxPages,        \* exp.maxPages
  volBatchSize,    \* exp.volBatchSize
  pc,              \* position of the goroutine running Start
  startErr,        \* Start's return value: "none" while running, "nil", or an error
  pageNum,         \* getSnapshots: pages handed to the callback so far
  totalSnaps,      \* getSnapshots: pre-filter snapshots seen
  queue,           \* exp.queue
  queueClosed,     \* exp.queue has been closed
  monitor,         \* position of the monitorQueue goroutine
  wgq,             \* exp.wgq counter
  wgv,             \* exp.wgv counter
  tasks,           \* the buildNuggets goroutines, in spawn order
  realVols,        \* exp.realVols
  lookupFailed,    \* history: a DescribeVolumes call has returned an error
  Nuggets,         \* exp.Nuggets
  images,          \* populateNuggets: the images the account owns
  lcs,             \* populateNuggets: the launch configurations
  lts,             \* populateNuggets: the latest launch template versions
  asgs,            \* populateNuggets: the autoscaling groups
  Bars,            \* exp.Bars
  LtsToDelete,     \* exp.LtsToDelete
  LcsToDelete,     \* exp.LcsToDelete
  AmiToDelete,     \* exp.AmiToDelete
  SnapToDelete,    \* exp.SnapToDelete
  recommendations  \* exp.recommendations

intakeVars == << provVols, maxPages, volBatchSize, pageNum, totalSnaps, queue,
                 queueClosed, monitor, wgq, wgv, tasks, realVols, lookupFailed >>

indexVars == << images, lcs, lts, asgs >>

planVars == << Bars, LtsToDelete, LcsToDelete, AmiToDelete, SnapToDelete, recommendations >>

vars == << provVols, maxPages, volBatchSize, pc, startErr, pageNum, totalSnaps,
           queue, queueClosed, monitor, wgq, wgv, tasks, realVols, lookupFailed, Nuggets,
           images, lcs, lts, asgs,
           Bars, LtsToDelete, LcsToDelete, AmiToDelete, SnapToDelete, recommendations >>

Init ==
  /\ provVols \in SUBSET VolumeIds
  /\ maxPages \in MaxPagesChoices
  /\ volBatchSize \in VolBatchSizeChoices
  /\ pc = "start"
  /\ startErr = "none"
  /\ pageNum = 0
  /\ totalSnaps = 0
  /\ queue = << >>
  /\ queueClosed = FALSE
  /\ monitor = "idle"
  /\ wgq = 0
  /\ wgv = 0
  /\ tasks = << >>
  /\ realVols = << >>
  /\ lookupFailed = FALSE
  /\ Nuggets = << >>
  /\ images = << >>
  /\ lcs = << >>
  /\ lts = << >>
  /\ asgs = << >>
  /\ Bars = << >>
  /\ LtsToDelete = << >>
  /\ LcsToDelete = << >>
  /\ AmiToDelete = << >>
  /\ SnapToDelete = << >>
  /\ recommendations = << >>


(***************************************************************************)
(* Start and getSnapshots (the goroutine that runs Start)                  *)
(***************************************************************************)
NewNugget(snap) ==
  [Snap |-> snap, HasVol |-> FALSE, AMIIDs |-> << >>, AMISharedWith |-> << >>,
   LCs |-> << >>, LTs |-> << >>, ASGs |-> << >>, parentBar |-> 0]

NewTask ==
  [pc |-> "recv", nuggets |-> << >>, batchVols |-> << >>, dv |-> << >>, tmp |-> << >>]

DoneTask ==
  [pc |-> "done", nuggets |-> << >>, batchVols |-> << >>, dv |-> << >>, tmp |-> << >>]

\* a filter that takes the snapshots of the cutoff date too
NotAfter(t, u) == t <= u

Before(t, u) == t < u

\* Start up to the call of getSnapshots: setDateFilter (the date filter of
\* the run parses to cutoffDate), then getAccountNumber, which can fail
Start ==
  /\ pc = "start"
  /\ \E ok \in BOOLEAN :
       IF ok THEN pc' = "paging" /\ startErr' = startErr
             ELSE pc' = "done" /\ startErr' = "error"
  /\ UNCHANGED << intakeVars, Nuggets, indexVars, planVars >>

\* one page of DescribeSnapshotsPages handed to the callback of getSnapshots
snapshotsPage ==
  /\ pc = "paging"
  /\ LET page == PageOf(pageNum + 1)
         filteredSnapshots == SelectSeq(page, LAMBDA snap : Before(snap.StartTime, cutoffDate))
         more == (pageNum + 1 <= maxPages) /\ (pageNum + 1 < NumPages)
     IN  /\ pageNum' = pageNum + 1
         /\ totalSnaps' = totalSnaps + Len(page)
         /\ IF Len(filteredSnapshots) > 0
              THEN /\ Len(queue) < QueueCap
                   /\ queue' = Append(queue, filteredSnapshots)
                   /\ wgq' = wgq + 1
                   /\ tasks' = Append(tasks, NewTask)
              ELSE UNCHANGED << queue, wgq, tasks >>
         /\ IF more
              THEN pc' = "paging" /\ monitor' = monitor
              ELSE pc' = "wgqWait" /\ monitor' = "wait"
  /\ UNCHANGED << provVols, maxPages, volBatchSize, startErr, queueClosed, wgv,
                  realVols, lookupFailed, Nuggets, indexVars, planVars >>

\* the listing call fails: getSnapshots returns the error, and so does Start
snapshotsError ==
  /\ pc = "paging"
  /\ pc' = "done"
  /\ startErr' = "error"
  /\ UNCHANGED << intakeVars, Nuggets, indexVars, planVars >>

\* a getSnapshots that returns nil without exp.wgq.Wait()
getSnapshotsNoWait ==
  /\ pc = "wgqWait"
  /\ pc' = "populate"
  /\ UNCHANGED << startErr, intakeVars, Nuggets, indexVars, planVars >>

\* a getSnapshots that returns nil as soon as exp.queue is drained
getSnapshotsWaitQueueDrained ==
  /\ pc = "wgqWait"
  /\ queue = << >>
  /\ pc' = "populate"
  /\ UNCHANGED << startErr, intakeVars, Nuggets, indexVars, planVars >>

\* exp.wgq.Wait() in getSnapshots, then its return nil
getSnapshotsWait ==
  /\ pc = "wgqWait"
  /\ wgq = 0
  /\ pc' = "populate"
  /\ UNCHANGED << startErr, intakeVars, Nuggets, indexVars, planVars >>

monitorQueue ==
  /\ monitor = "wait"
  /\ wgq = 0
  /\ queueClosed' = TRUE
  /\ monitor' = "done"
  /\ UNCHANGED << provVols, maxPages, volBatchSize, pc, startErr, pageNum, totalSnaps,
                  queue, wgq, wgv, tasks, realVols, lookupFailed, Nuggets, indexVars,
                  planVars >>

(***************************************************************************)
(* buildNuggets (one goroutine per queued page)                            *)
(***************************************************************************)
taskRest == << provVols, maxPages, volBatchSize, pc, startErr, pageNum, totalSnaps,
               queueClosed, monitor, lookupFailed, indexVars, planVars >>

\* a buildNuggets that reads the page at the head of exp.queue and leaves
\* it there
buildNuggetsRecvPeek(t) ==
  /\ tasks[t].pc = "recv"
  /\ Len(queue) > 0
  /\ LET page == Head(queue)
         nuggets == [i \in 1..Len(page) |-> NewNugget(page[i])]
         inVols == [i \in 1..Len(page) |-> page[i].VolumeId]
         batchVols == makeBatchesStringPointer(dedupeStringPointer(inVols), volBatchSize)
     IN  tasks' = [tasks EXCEPT ![t] =
              [@ EXCEPT !.pc = IF Len(batchVols) > 0 THEN "spawn" ELSE "wait",
                        !.nuggets = nuggets, !.batchVols = batchVols]]
  /\ UNCHANGED << taskRest, queue, wgq, wgv, realVols, Nuggets >>

\* <-exp.queue, the nuggets of the page, dedupe and batches of the volume ids
buildNuggetsRecv(t) ==
  /\ tasks[t].pc = "recv"
  /\ Len(queue) > 0 \/ queueClosed
  /\ LET page == IF Len(queue) > 0 THEN Head(queue) ELSE << >>
         nuggets == [i \in 1..Len(page) |-> NewNugget(page[i])]
         inVols == [i \in 1..Len(page) |-> page[i].VolumeId]
         inVolsD == dedupeStringPointer(inVols)
         batchVols == makeBatchesStringPointer(inVolsD, volBatchSize)
     IN  /\ queue' = IF Len(queue) > 0 THEN Tail(queue) ELSE queue
         /\ tasks' = [tasks EXCEPT ![t] =
              [@ EXCEPT !.pc = IF Len(batchVols) > 0 THEN "spawn" ELSE "wait",
                        !.nuggets = nuggets, !.batchVols = batchVols]]
  /\ UNCHANGED << taskRest, wgq, wgv, realVols, Nuggets >>

\* exp.wgv.Add(1); go exp.describeVolumes(batch)
buildNuggetsSpawn(t) ==
  /\ tasks[t].pc = "spawn"
  /\ LET k == Len(tasks[t].dv) + 1
         g == [pc |-> "call", inVols |-> tasks[t].batchVols[k], i |-> 1, tmp |-> << >>]
     IN  tasks' = [tasks EXCEPT ![t] =
              [@ EXCEPT !.dv = Append(@, g),
                        !.pc = IF k = Len(tasks[t].batchVols) THEN "wait" ELSE "spawn"]]
  /\ wgv' = wgv + 1
  /\ UNCHANGED << taskRest, queue, wgq, realVols, Nuggets >>

\* a buildNuggets that goes on to the marking without exp.wgv.Wait()
buildNuggetsNoWait(t) ==
  /\ tasks[t].pc = "wait"
  /\ tasks' = [tasks EXCEPT ![t].pc = "mark"]
  /\ UNCHANGED << taskRest, queue, wgq, wgv, realVols, Nuggets >>

\* exp.wgv.Wait()
buildNuggetsWait(t) ==
  /\ tasks[t].pc = "wait"
  /\ wgv = 0
  /\ tasks' = [tasks EXCEPT ![t].pc = "mark"]
  /\ UNCHANGED << taskRest, queue, wgq, wgv, realVols, Nuggets >>

\* the loop over exp.realVols that sets HasVol
MarkHasVol(vols, nuggets) ==
  [j \in 1..Len(nuggets) |->
     IF \E v \in 1..Len(vols) : vols[v] = nuggets[j].Snap.VolumeId
       THEN [nuggets[j] EXCEPT !.HasVol = TRUE] ELSE nuggets[j]]

buildNuggetsMark(t) ==
  /\ tasks[t].pc = "mark"
  /\ tasks' = [tasks EXCEPT ![t] =
        [@ EXCEPT !.pc = "appendRead", !.nuggets = MarkHasVol(realVols, @)]]
  /\ UNCHANGED << taskRest, queue, wgq, wgv, realVols, Nuggets >>

\* exp.Nuggets = append(exp.Nuggets, nuggets...): the read of exp.Nuggets
buildNuggetsAppendRead(t) ==
  /\ tasks[t].pc = "appendRead"
  /\ tasks' = [tasks EXCEPT ![t] = [@ EXCEPT !.pc = "appendWrite", !.tmp = Nuggets]]
  /\ UNCHANGED << taskRest, queue, wgq, wgv, realVols, Nuggets >>

\* ... the write of exp.Nuggets, then the deferred exp.wgq.Done()
buildNuggetsAppendWrite(t) ==
  /\ tasks[t].pc = "appendWrite"
  /\ Nuggets' = tasks[t].tmp \o tasks[t].nuggets
  /\ wgq' = wgq - 1
  /\ tasks' = [tasks EXCEPT ![t] = DoneTask]
  /\ UNCHANGED << taskRest, queue, wgv, realVols >>

(***************************************************************************)
(* describeVolumes (one goroutine per batch)                               *)
(***************************************************************************)
\* the goroutine moves to the next volume of its batch, or returns
\* (deferred exp.wgv.Done())
dvAdvance(t, b, g) ==
  IF g.i < Len(g.inVols)
    THEN /\ tasks' = [tasks EXCEPT ![t].dv[b] = [g EXCEPT !.pc = "call", !.i = g.i + 1]]
         /\ wgv' = wgv
    ELSE /\ tasks' = [tasks EXCEPT ![t].dv[b] = [g EXCEPT !.pc = "done", !.tmp = << >>]]
         /\ wgv' = wgv - 1

\* svc.DescribeVolumes for one volume id; the error is dropped (r, _ := ...)
\* and the SDK returns an empty output with it, so a failed call and a
\* missing volume both give an empty r.Volumes.  When the volume
\* comes back, the append starts with the read of exp.realVols.
describeVolumesCall(t, b) ==
  /\ b \in 1..Len(tasks[t].dv)
  /\ tasks[t].dv[b].pc = "call"
  /\ LET g == tasks[t].dv[b]
         vol == g.inVols[g.i]
     IN  \E r \in (IF vol \in provVols THEN {"found", "error"} ELSE {"notfound"}) :
           /\ IF r = "found"
                THEN /\ tasks' = [tasks EXCEPT ![t].dv[b] =
                             [g EXCEPT !.pc = "write", !.tmp = realVols]]
                     /\ wgv' = wgv
                ELSE dvAdvance(t, b, g)
           /\ lookupFailed' = (lookupFailed \/ r = "error")
  /\ UNCHANGED << provVols, maxPages, volBatchSize, pc, startErr, pageNum, totalSnaps,
                  queueClosed, monitor, indexVars, planVars, queue, wgq, realVols, Nuggets >>

\* exp.realVols = append(exp.realVols, vol): the write
describeVolumesWrite(t, b) ==
  /\ b \in 1..Len(tasks[t].dv)
  /\ tasks[t].dv[b].pc = "write"
  /\ LET g == tasks[t].dv[b]
     IN  /\ realVols' = Append(g.tmp, g.inVols[g.i])
         /\ dvAdvance(t, b, [g EXCEPT !.tmp = << >>])
  /\ UNCHANGED << taskRest, queue, wgq, Nuggets >>

(***************************************************************************)
(* Correlation: populateNuggets                                            *)
(***************************************************************************)
\* the account ids, and "all", a list of permissions names
permAccts(perms) ==
  Flatten([i \in 1..Len(perms) |->
     (IF perms[i].Group /= Nil THEN << perms[i].Group >> ELSE << >>)
       \o (IF perms[i].UserId /= Nil THEN << perms[i].UserId >> ELSE << >>)])

imageSharedTo(image) == permAccts(image.LaunchPermissions)

\* never called by Start
snapshotSharedTo(snap) == permAccts(CreateVolumePermissions[snap])

lcInASGs(lcName, allAsgs) ==
  LET hit == SelectSeq(allAsgs, LAMBDA asg :
                 asg.LaunchConfigurationName /= Nil /\ asg.LaunchConfigurationName = lcName)
  IN  [i \in 1..Len(hit) |-> hit[i].AutoScalingGroupName]

ltInASGs(ltName, allAsgs) ==
  LET hit == SelectSeq(allAsgs, LAMBDA asg :
                 asg.LaunchTemplateName /= Nil /\ asg.LaunchTemplateName = ltName)
  IN  [i \in 1..Len(hit) |-> hit[i].AutoScalingGroupName]

\* one name for a match on the image id, and one more for every
\* block-device mapping of the snapshot
lcsWithSnapImage(allLcs, snapshotId, imageId) ==
  Flatten([i \in 1..Len(allLcs) |->
     (IF allLcs[i].ImageId = imageId THEN << allLcs[i].LaunchConfigurationName >> ELSE << >>)
       \o [j \in 1..Len(SelectSeq(allLcs[i].BlockDeviceMappings,
                                  LAMBDA bdm : bdm /= Nil /\ bdm = snapshotId))
             |-> allLcs[i].LaunchConfigurationName]])

\* (the code dereferences lt.LaunchTemplateData.ImageId and bdm.Ebs without a
\* nil test: the templates of the provider world have both)
ltsWithSnapImage(allLts, snapshotId, imageId) ==
  Flatten([i \in 1..Len(allLts) |->
     (IF allLts[i].ImageId = imageId THEN << allLts[i].LaunchTemplateName >> ELSE << >>)
       \o [j \in 1..Len(SelectSeq(allLts[i].BlockDeviceMappings,
                                  LAMBDA bdm : bdm /= Nil /\ bdm = snapshotId))
             |-> allLts[i].LaunchTemplateName]])

\* for _, lc := range snap.LCs { _, snap.ASGs = lcInASGs(lc, asgs) }
RECURSIVE asgsOfLCs(_, _, _, _)
asgsOfLCs(names, i, allAsgs, cur) ==
  IF i > Len(names) THEN cur
  ELSE asgsOfLCs(names, i + 1, allAsgs, lcInASGs(names[i], allAsgs))

\* for _, lt := range snap.LTs { _, snap.ASGs = ltInASGs(lt, asgs) }
RECURSIVE asgsOfLTs(_, _, _, _)
asgsOfLTs(names, i, allAsgs, cur) ==
  IF i > Len(names) THEN cur
  ELSE asgsOfLTs(names, i + 1, allAsgs, ltInASGs(names[i], allAsgs))

\* the body of the innermost if of populateNuggets, up to the call of
\* imageSharedTo, for nugget snap and an image that maps its snapshot
matchImage(snap, image, allLcs, allLts, allAsgs) ==
  LET newLCs == lcsWithSnapImage(allLcs, snap.Snap.SnapshotId, image.ImageId)
      newLTs == ltsWithSnapImage(allLts, snap.Snap.SnapshotId, image.ImageId)
  IN  [snap EXCEPT
         !.AMIIDs = Append(@, image.ImageId),
         !.LCs = newLCs,
         !.LTs = newLTs,
         !.ASGs = asgsOfLTs(newLTs, 1, allAsgs, asgsOfLCs(newLCs, 1, allAsgs, @))]

\* the (image, nugget) pairs of the three nested loops whose condition
\* holds, in loop order, one for every matching block-device mapping
matchList(nugs, imgs) ==
  Flatten([ii \in 1..Len(imgs) |->
    Flatten([ni \in 1..Len(nugs) |->
      [k \in 1..Len(SelectSeq(imgs[ii].BlockDeviceMappings,
                              LAMBDA bdm : bdm /= Nil /\ bdm = nugs[ni].Snap.SnapshotId))
         |-> << ii, ni >>]])])

\* the loops of populateNuggets; failAt is the call of imageSharedTo that
\* fails (0: none does)
populateLoop(nugs0, imgs, allLcs, allLts, allAsgs, failAt) ==
  LET matches == matchList(nugs0, imgs)
      RECURSIVE run(_, _)
      run(k, nugs) ==
        IF k > Len(matches) THEN [Nuggets |-> nugs, err |-> FALSE]
        ELSE LET ii == matches[k][1]
                 ni == matches[k][2]
                 n1 == matchImage(nugs[ni], imgs[ii], allLcs, allLts, allAsgs)
             IN  IF k = failAt
                   THEN [Nuggets |-> [nugs EXCEPT ![ni] = [n1 EXCEPT !.AMISharedWith = << >>]],
                         err |-> TRUE]
                   ELSE run(k + 1, [nugs EXCEPT ![ni] =
                                      [n1 EXCEPT !.AMISharedWith = imageSharedTo(imgs[ii])]])
  IN  run(1, nugs0)

\* a Start that keeps the error of populateNuggets but goes on to addBars
populateDescribeErrorGoesOn ==
  /\ pc = "populate"
  /\ pc' = "addBars"
  /\ startErr' = "error"
  /\ UNCHANGED << intakeVars, Nuggets, indexVars, planVars >>

\* populateNuggets when one of its four describe calls fails
populateDescribeError ==
  /\ pc = "populate"
  /\ pc' = "done"
  /\ startErr' = "error"
  /\ UNCHANGED << intakeVars, Nuggets, indexVars, planVars >>

\* populateNuggets when the describe calls succeed
populateNuggets ==
  /\ pc = "populate"
  /\ \E imgs \in ImageLists, allLcs \in LcLists, allLts \in LtLists, allAsgs \in AsgLists :
       \E failAt \in 0..Len(matchList(Nuggets, imgs)) :
         LET r == populateLoop(Nuggets, imgs, allLcs, allLts, allAsgs, failAt)
         IN  /\ images' = imgs
             /\ lcs' = allLcs
             /\ lts' = allLts
             /\ asgs' = allAsgs
             /\ Nuggets' = r.Nuggets
             /\ IF r.err THEN pc' = "done" /\ startErr' = "error"
                         ELSE pc' = "addBars" /\ startErr' = startErr
  /\ UNCHANGED << intakeVars, planVars >>

(***************************************************************************)
(* Grouping: addBars, addBar.  A bar holds its nuggets as positions in     *)
(* exp.Nuggets, a nugget its parentBar as a position in exp.Bars.          *)
(***************************************************************************)
\* addBar that sets parentBar of a nugget whose bar exists but leaves the
\* append to bar.Nuggets out
addBarNoAppend(st, n) ==
  LET vol == st.Nuggets[n].Snap.VolumeId
      hits == {b \in 1..Len(st.Bars) : st.Bars[b].VolumeId = vol}
      found == hits /= {}
      last == CHOOSE b \in hits : \A c \in hits : c <= b
  IN  IF found
        THEN [Bars |-> st.Bars,
              Nuggets |-> [st.Nuggets EXCEPT ![n].parentBar = last]]
        ELSE [Bars |-> Append(st.Bars,
                          [VolumeId |-> vol, Nuggets |-> << n >>,
                           HasVol |-> st.Nuggets[n].HasVol]),
              Nuggets |-> [st.Nuggets EXCEPT ![n].parentBar = Len(st.Bars) + 1]]

addBar(st, n) ==
  LET vol == st.Nuggets[n].Snap.VolumeId
      hits == {b \in 1..Len(st.Bars) : st.Bars[b].VolumeId = vol}
      found == hits /= {}
      last == CHOOSE b \in hits : \A c \in hits : c <= b
  IN  IF found
        THEN [Bars |-> [b \in 1..Len(st.Bars) |->
                          IF b \in hits
                            THEN [st.Bars[b] EXCEPT !.Nuggets = Append(@, n)]
                            ELSE st.Bars[b]],
              Nuggets |-> [st.Nuggets EXCEPT ![n].parentBar = last]]
        ELSE [Bars |-> Append(st.Bars,
                          [VolumeId |-> vol, Nuggets |-> << n >>,
                           HasVol |-> st.Nuggets[n].HasVol]),
              Nuggets |-> [st.Nuggets EXCEPT ![n].parentBar = Len(st.Bars) + 1]]

RECURSIVE addBarsFrom(_, _)
addBarsFrom(st, n) ==
  IF n > Len(st.Nuggets) THEN st ELSE addBarsFrom(addBar(st, n), n + 1)

addBars ==
  /\ pc = "addBars"
  /\ LET st == addBarsFrom([Bars |-> Bars, Nuggets |-> Nuggets], 1)
     IN  Bars' = st.Bars /\ Nuggets' = st.Nuggets
  /\ pc' = "setRecommendations"
  /\ UNCHANGED << startErr, intakeVars, indexVars, LtsToDelete, LcsToDelete, AmiToDelete,
                  SnapToDelete, recommendations >>

(***************************************************************************)
(* Plan: setRecommendations                                                *)
(***************************************************************************)
\* len(nug.ASGs) == 0 && len(nug.AMISharedWith) == 0
safeToDelete(nug) == Len(nug.ASGs) = 0 /\ Len(nug.AMISharedWith) = 0

\* setRecommendations without the test of bar.HasVol
barSelectedAny(bar) == TRUE

\* the bars the first loop of setRecommendations enters
barSelected(bar) == ~bar.HasVol

\* the nuggets (positions in nugs) that the first loop finds safe to delete,
\* in loop order
nugsToDelete(bars, nugs) ==
  Flatten([b \in 1..Len(bars) |->
     IF barSelected(bars[b])
       THEN SelectSeq(bars[b].Nuggets, LAMBDA n : safeToDelete(nugs[n]))
       ELSE << >>])

\* barsToDelete: the parentBar of every nugget that is safe to delete
barsToDeleteOf(bars, nugs) ==
  LET del == nugsToDelete(bars, nugs)
  IN  [k \in 1..Len(del) |-> nugs[del[k]].parentBar]

countAsgShareOf(bars, nugs) ==
  LET spared == Flatten([b \in 1..Len(bars) |->
                   IF barSelected(bars[b])
                     THEN SelectSeq(bars[b].Nuggets, LAMBDA n : ~safeToDelete(nugs[n]))
                     ELSE << >>])
  IN  Len(spared)

countHasVolOf(bars) == Len(SelectSeq(bars, LAMBDA bar : ~barSelected(bar)))

RECURSIVE totalGbsFrom(_, _, _, _)
totalGbsFrom(btd, k, bars, nugs) ==
  IF k > Len(btd) THEN 0
  ELSE (IF ~bars[btd[k]].HasVol THEN nugs[bars[btd[k]].Nuggets[1]].Snap.VolumeSize ELSE 0)
         + totalGbsFrom(btd, k + 1, bars, nugs)

totalGbsOf(bars, nugs) == totalGbsFrom(barsToDeleteOf(bars, nugs), 1, bars, nugs)

Line(kind, text, n) == [line |-> kind, text |-> text, n |-> n]

Items(kind, names) == [i \in 1..Len(names) |-> Line(kind, names[i], 0)]

\* a setRecommendations that lists the snapshots first and the launch
\* templates last
setRecommendationsSnapshotsFirst ==
  /\ pc = "setRecommendations"
  /\ LET del == nugsToDelete(Bars, Nuggets)
         newLts == dedupeString(LtsToDelete \o Flatten([k \in 1..Len(del) |-> Nuggets[del[k]].LTs]))
         newLcs == dedupeString(LcsToDelete \o Flatten([k \in 1..Len(del) |-> Nuggets[del[k]].LCs]))
         newAmi == dedupeString(AmiToDelete \o Flatten([k \in 1..Len(del) |-> Nuggets[del[k]].AMIIDs]))
         newSnap == dedupeString(SnapToDelete \o [k \in 1..Len(del) |-> Nuggets[del[k]].Snap.SnapshotId])
     IN  /\ LtsToDelete' = newLts
         /\ LcsToDelete' = newLcs
         /\ AmiToDelete' = newAmi
         /\ SnapToDelete' = newSnap
         /\ recommendations' =
              << Line("intro", "", Len(newSnap)), Line("caveat", "", 0),
                 Line("Snapshots", "", 0) >> \o Items("snap", newSnap)
              \o << Line("AMIs", "", 0) >> \o Items("ami", newAmi)
              \o << Line("LaunchConfigurations", "", 0) >> \o Items("lc", newLcs)
              \o << Line("LaunchTemplates", "", 0) >> \o Items("lt", newLts)
              \o << Line("sparedHasVol", "", countHasVolOf(Bars)),
                    Line("sparedAsgShare", "", countAsgShareOf(Bars, Nuggets)),
                    Line("totalGbs", "", totalGbsOf(Bars, Nuggets)) >>
  /\ pc' = "done"
  /\ startErr' = "nil"
  /\ UNCHANGED << intakeVars, Nuggets, indexVars, Bars >>

setRecommendations ==
  /\ pc = "setRecommendations"
  /\ LET del == nugsToDelete(Bars, Nuggets)
         newLts == dedupeString(LtsToDelete \o Flatten([k \in 1..Len(del) |-> Nuggets[del[k]].LTs]))
         newLcs == dedupeString(LcsToDelete \o Flatten([k \in 1..Len(del) |-> Nuggets[del[k]].LCs]))
         newAmi == dedupeString(AmiToDelete \o Flatten([k \in 1..Len(del) |-> Nuggets[del[k]].AMIIDs]))
         newSnap == dedupeString(SnapToDelete \o [k \in 1..Len(del) |-> Nuggets[del[k]].Snap.SnapshotId])
     IN  /\ LtsToDelete' = newLts
         /\ LcsToDelete' = newLcs
         /\ AmiToDelete' = newAmi
         /\ SnapToDelete' = newSnap
         /\ recommendations' =
              << Line("intro", "", Len(newSnap)), Line("caveat", "", 0),
                 Line("LaunchTemplates", "", 0) >> \o Items("lt", newLts)
              \o << Line("LaunchConfigurations", "", 0) >> \o Items("lc", newLcs)
              \o << Line("AMIs", "", 0) >> \o Items("ami", newAmi)
              \o << Line("Snapshots", "", 0) >> \o Items("snap", newSnap)
              \o << Line("sparedHasVol", "", countHasVolOf(Bars)),
                    Line("sparedAsgShare", "", countAsgShareOf(Bars, Nuggets)),
                    Line("totalGbs", "", totalGbsOf(Bars, Nuggets)) >>
  /\ pc' = "done"
  /\ startErr' = "nil"
  /\ UNCHANGED << intakeVars, Nuggets, indexVars, Bars >>

Next ==
  \/ Start
  \/ snapshotsPage
  \/ snapshotsError
  \/ getSnapshotsWait
  \/ monitorQueue
  \/ \E t \in 1..Len(tasks) : buildNuggetsRecv(t)
  \/ \E t \in 1..Len(tasks) : buildNuggetsSpawn(t)
  \/ \E t \in 1..Len(tasks) : buildNuggetsWait(t)
  \/ \E t \in 1..Len(tasks) : buildNuggetsMark(t)
  \/ \E t \in 1..Len(tasks) : buildNuggetsAppendRead(t)
  \/ \E t \in 1..Len(tasks) : buildNuggetsAppendWrite(t)
  \/ \E t \in 1..Len(tasks) : \E b \in 1..Len(tasks[t].dv) : describeVolumesCall(t, b)
  \/ \E t \in 1..Len(tasks) : \E b \in 1..Len(tasks[t].dv) : describeVolumesWrite(t, b)
  \/ populateDescribeError
  \/ populateNuggets
  \/ addBars
  \/ setRecommendations

Spec == Init /\ [][Next]_vars

(***************************************************************************)
(* Batching of the volume ids of one page: buildNuggets started for a      *)
(* queued page of any content, under any batch size.  The listing had one  *)
(* page, of snapshots older than the cutoff, and getSnapshots waits.       *)
(***************************************************************************)
MaxPageLen == 4

MaxBatchSize == 3

BatchVolumeIds == {"vol-1", "vol-2", "vol-3", "vol-4"}

\* the pages of one to MaxPageLen snapshots of these volumes
BatchPages ==
  UNION {{[i \in 1..n |-> [SnapshotId |-> "snap-" \o ToString(i), VolumeId |-> vols[i],
                            VolumeSize |-> 1, StartTime |-> cutoffDate - 1]] :
            vols \in [1..n -> BatchVolumeIds]} : n \in 1..MaxPageLen}

InitBatches ==
  /\ provVols = {}
  /\ maxPages = 1
  /\ volBatchSize \in 1..MaxBatchSize
  /\ pc = "wgqWait"
  /\ startErr = "none"
  /\ pageNum = 1
  /\ \E page \in BatchPages : queue = << page >> /\ totalSnaps = Len(page)
  /\ queueClosed = FALSE
  /\ monitor = "wait"
  /\ wgq = 1
  /\ wgv = 0
  /\ tasks = << NewTask >>
  /\ realVols = << >>
  /\ lookupFailed = FALSE
  /\ Nuggets = << >>
  /\ images = << >>
  /\ lcs = << >>
  /\ lts = << >>
  /\ asgs = << >>
  /\ Bars = << >>
  /\ LtsToDelete = << >>
  /\ LcsToDelete = << >>
  /\ AmiToDelete = << >>
  /\ SnapToDelete = << >>
  /\ recommendations = << >>

NextBatches ==
  \/ \E t \in 1..Len(tasks) : buildNuggetsRecv(t)
  \/ \E t \in 1..Len(tasks) : buildNuggetsSpawn(t)

SpecBatches == InitBatches /\ [][NextBatches]_vars

(***************************************************************************)
(* Intake alone, up to the return of getSnapshots, with the scheduling of  *)
(* the goroutines: a goroutine that can take a step takes it in the end,   *)
(* and every provider call returns (a page or an error for the listing).   *)
(***************************************************************************)
\* the steps of the t-th buildNuggets goroutine and of its describeVolumes
\* goroutines
taskStep(t) ==
  /\ t \in 1..Len(tasks)
  /\ \/ buildNuggetsRecv(t)
     \/ buildNuggetsSpawn(t)
     \/ buildNuggetsWait(t)
     \/ buildNuggetsMark(t)
     \/ buildNuggetsAppendRead(t)
     \/ buildNuggetsAppendWrite(t)
     \/ \E b \in 1..Len(tasks[t].dv) : describeVolumesCall(t, b)
     \/ \E b \in 1..Len(tasks[t].dv) : describeVolumesWrite(t, b)

NextIntake ==
  \/ Start
  \/ snapshotsPage
  \/ snapshotsError
  \/ getSnapshotsWait
  \/ monitorQueue
  \/ \E t \in 1..Len(tasks) : taskStep(t)

FairIntake ==
  /\ WF_vars(Start)
  /\ WF_vars(snapshotsPage \/ snapshotsError)
  /\ WF_vars(getSnapshotsWait)
  /\ WF_vars(monitorQueue)
  /\ \A t \in 1..NumPages : WF_vars(taskStep(t))

SpecIntake == Init /\ [][NextIntake]_vars /\ FairIntake

(***************************************************************************)
(* Vocabulary of the properties                                            *)
(***************************************************************************)
Range(seq) == {seq[i] : i \in 1..Len(seq)}

RECURSIVE SumSeq(_)
SumSeq(seq) == IF seq = << >> THEN 0 ELSE Head(seq) + SumSeq(Tail(seq))

\* Start has returned nil
Succeeded == pc = "done" /\ startErr = "nil"

\* populateNuggets has returned nil
Populated == pc \in {"addBars", "setRecommendations"} \/ Succeeded

\* addBars has returned
Grouped == pc = "setRecommendations" \/ Succeeded

SnapshotOf(id) == CHOOSE snap \in Range(Snapshots) : snap.SnapshotId = id

ImageOf(id) == CHOOSE image \in Range(images) : image.ImageId = id

MembersOf(b) == [k \in 1..Len(Bars[b].Nuggets) |-> Nuggets[Bars[b].Nuggets[k]]]

\* the places (bar, position in the bar) of the members of the bars
MemberPlaces ==
  UNION {{<< b, k >> : k \in 1..Len(Bars[b].Nuggets)} : b \in 1..Len(Bars)}

\* a record with no autoscaling group and no share target
Deletable(nug) == nug.ASGs = << >> /\ nug.AMISharedWith = << >>

DeletableMembersOf(b) == SelectSeq(MembersOf(b), Deletable)

\* the total of the cost line of the recommendations
TotalGbs == recommendations[Len(recommendations)].n

\* the images of the index that map a snapshot
ImagesMapping(snapshotId) ==
  {image \in Range(images) : snapshotId \in Range(image.BlockDeviceMappings)}

\* the launch configurations and templates that enrichment matches for a
\* record: on the id of an image that maps its snapshot, or on the snapshot
MatchedLcNames(snapshotId) ==
  {lc.LaunchConfigurationName : lc \in
     {l \in Range(lcs) : \E image \in ImagesMapping(snapshotId) :
          l.ImageId = image.ImageId \/ snapshotId \in Range(l.BlockDeviceMappings)}}

MatchedLtNames(snapshotId) ==
  {lt.LaunchTemplateName : lt \in
     {l \in Range(lts) : \E image \in ImagesMapping(snapshotId) :
          l.ImageId = image.ImageId \/ snapshotId \in Range(l.BlockDeviceMappings)}}

AsgsUsingLc(name) ==
  {asg \in Range(asgs) : asg.LaunchConfigurationName = name}

AsgsUsingLt(name) ==
  {asg \in Range(asgs) : asg.LaunchTemplateName = name}

(***************************************************************************)
(* Properties                                                              *)
(***************************************************************************)
\* C1: after addBars, the HasVol of every bar is the logical OR of the
\* HasVol of its members.
C1_BarHasVolIsOrOfMembers ==
  Grouped =>
    \A b \in 1..Len(Bars) :
      Bars[b].HasVol = (\E k \in 1..Len(Bars[b].Nuggets) : MembersOf(b)[k].HasVol)

\* C2: a bar with HasVol true contributes nothing to the plan: none of its
\* members' snapshot ids is listed, every listed launch template, launch
\* configuration and image comes from a deletable member of a bar without
\* volume, and the total counts bars without volume only.
C2_HasVolBarContributesNothing ==
  Succeeded =>
    /\ \A b \in 1..Len(Bars) : Bars[b].HasVol =>
         \A k \in 1..Len(Bars[b].Nuggets) :
           MembersOf(b)[k].Snap.SnapshotId \notin Range(SnapToDelete)
    /\ \A x \in Range(LtsToDelete) : \E b \in 1..Len(Bars) :
         ~Bars[b].HasVol /\ \E n \in Range(DeletableMembersOf(b)) : x \in Range(n.LTs)
    /\ \A x \in Range(LcsToDelete) : \E b \in 1..Len(Bars) :
         ~Bars[b].HasVol /\ \E n \in Range(DeletableMembersOf(b)) : x \in Range(n.LCs)
    /\ \A x \in Range(AmiToDelete) : \E b \in 1..Len(Bars) :
         ~Bars[b].HasVol /\ \E n \in Range(DeletableMembersOf(b)) : x \in Range(n.AMIIDs)
    /\ TotalGbs = SumSeq([b \in 1..Len(Bars) |->
                    IF Bars[b].HasVol THEN 0
                    ELSE Len(DeletableMembersOf(b)) * MembersOf(b)[1].Snap.VolumeSize])

\* C2 witness: the plan is built while a bar with HasVol true has a member
\* with no autoscaling group and no share target that is registered as an
\* image used by a launch configuration, and another bar is in the plan.
C2_Witness ==
  /\ Succeeded
  /\ SnapToDelete /= << >>
  /\ \E b \in 1..Len(Bars) :
       /\ Bars[b].HasVol
       /\ \E n \in Range(MembersOf(b)) :
            Deletable(n) /\ n.AMIIDs /= << >> /\ n.LCs /= << >>

\* C3: after Start returns nil, no snapshot whose volume exists at the
\* provider is in SnapToDelete.
C3_NoSnapshotOfExistingVolumeDeleted ==
  Succeeded =>
    \A id \in Range(SnapToDelete) : SnapshotOf(id).VolumeId \notin provVols

\* C4: after Start returns nil, no snapshot mapped into an image that a
\* launch configuration or launch template of some autoscaling group
\* references is in SnapToDelete.
C4_NoSnapshotInUseByAsgDeleted ==
  Succeeded =>
    \A id \in Range(SnapToDelete) :
      \A image \in ImagesMapping(id) :
        /\ \A lc \in Range(lcs) :
             lc.ImageId = image.ImageId => AsgsUsingLc(lc.LaunchConfigurationName) = {}
        /\ \A lt \in Range(lts) :
             lt.ImageId = image.ImageId => AsgsUsingLt(lt.LaunchTemplateName) = {}

\* C5: after populateNuggets, the ASGs of a record hold every autoscaling
\* group that uses a launch configuration or launch template matched for
\* the record.
C5_AsgsAccumulate ==
  Populated =>
    \A i \in 1..Len(Nuggets) :
      /\ \A name \in MatchedLcNames(Nuggets[i].Snap.SnapshotId) :
           \A asg \in AsgsUsingLc(name) :
             asg.AutoScalingGroupName \in Range(Nuggets[i].ASGs)
      /\ \A name \in MatchedLtNames(Nuggets[i].Snap.SnapshotId) :
           \A asg \in AsgsUsingLt(name) :
             asg.AutoScalingGroupName \in Range(Nuggets[i].ASGs)

\* C6: after Start returns nil, no image of AmiToDelete is shared with
\* another account or with "all".
C6_NoSharedImageDeleted ==
  Succeeded =>
    \A id \in Range(AmiToDelete) : ImageOf(id).LaunchPermissions = << >>

\* C7: after Start returns nil, no name of LtsToDelete or LcsToDelete is the
\* launch template or launch configuration of an autoscaling group.
C7_NoLaunchConfigInUseDeleted ==
  Succeeded =>
    /\ \A name \in Range(LcsToDelete) : AsgsUsingLc(name) = {}
    /\ \A name \in Range(LtsToDelete) : AsgsUsingLt(name) = {}

\* C8: a snapshot with a create-volume permission for another account or
\* for "all" is never in SnapToDelete.
C8_NoSharedSnapshotDeleted ==
  Succeeded =>
    \A id \in Range(SnapToDelete) : CreateVolumePermissions[id] = << >>

\* C9: after populateNuggets, a launch configuration or launch template
\* whose block-device mappings reference the snapshot of a record is among
\* the LCs or LTs of the record, whether or not an image maps the snapshot.
C9_MatchOnRawSnapshotId ==
  Populated =>
    \A i \in 1..Len(Nuggets) :
      /\ \A lc \in Range(lcs) :
           Nuggets[i].Snap.SnapshotId \in Range(lc.BlockDeviceMappings)
             => lc.LaunchConfigurationName \in Range(Nuggets[i].LCs)
      /\ \A lt \in Range(lts) :
           Nuggets[i].Snap.SnapshotId \in Range(lt.BlockDeviceMappings)
             => lt.LaunchTemplateName \in Range(Nuggets[i].LTs)

\* C10: the total reclaimable GB is the sum, over the bars without volume
\* that have a deletable member, of the volume size of the first member,
\* each bar counted once.
C10_TotalCountsEachBarOnce ==
  Succeeded =>
    TotalGbs = SumSeq([b \in 1..Len(Bars) |->
                 IF ~Bars[b].HasVol /\ DeletableMembersOf(b) /= << >>
                   THEN MembersOf(b)[1].Snap.VolumeSize ELSE 0])

\* C11: after addBars the bars partition the nuggets: every nugget is a
\* member of exactly one bar, at exactly one place, and that bar has its
\* volume id and is its parentBar; no two bars have the same volume id; the
\* members of all bars together are the nuggets, each once.
C11_BarsPartitionNuggets ==
  Grouped =>
    /\ \A n \in 1..Len(Nuggets) :
         /\ Cardinality({bk \in MemberPlaces : Bars[bk[1]].Nuggets[bk[2]] = n}) = 1
         /\ \A b \in 1..Len(Bars) :
              n \in Range(Bars[b].Nuggets) =>
                Bars[b].VolumeId = Nuggets[n].Snap.VolumeId /\ Nuggets[n].parentBar = b
    /\ \A b, c \in 1..Len(Bars) : Bars[b].VolumeId = Bars[c].VolumeId => b = c
    /\ \A bk \in MemberPlaces : Bars[bk[1]].Nuggets[bk[2]] \in 1..Len(Nuggets)
    /\ SumSeq([b \in 1..Len(Bars) |-> Len(Bars[b].Nuggets)]) = Len(Nuggets)

\* C11 witness: addBars has grouped nuggets of two pages into several bars,
\* one of them with two members.
C11_Witness ==
  /\ Grouped
  /\ Len(Bars) >= 2
  /\ \E b \in 1..Len(Bars) : Len(Bars[b].Nuggets) >= 2

\* C12: intake consumes at most maxPages pages: the callback of getSnapshots
\* has run for at most maxPages pages, and every queued page and every
\* nugget comes from one of the first maxPages pages.
C12_AtMostMaxPagesConsumed ==
  /\ pageNum <= maxPages
  /\ \A q \in 1..Len(queue) : \A i \in 1..Len(queue[q]) :
       \E page \in 1..maxPages : page <= NumPages /\ queue[q][i] \in Range(PageOf(page))
  /\ \A n \in 1..Len(Nuggets) :
       \E page \in 1..maxPages : page <= NumPages /\ Nuggets[n].Snap \in Range(PageOf(page))

\* pagination was stopped by the callback while the provider had more pages
Truncated == pc \notin {"start", "paging"} /\ startErr /= "error" /\ pageNum < NumPages

\* the kinds of the lines of the recommendations
RecommendationKinds == {recommendations[i].line : i \in 1..Len(recommendations)}

\* C13: when pagination stops at the page cap while the provider has more
\* pages, Start still returns nil, and the output of the run tells it: the
\* recommendations carry a truncation notice exactly when pages were left
\* unread.
C13_TruncationIsReported ==
  /\ pc = "done" /\ Truncated => startErr = "nil"
  /\ Succeeded => (Truncated <=> "truncated" \in RecommendationKinds)

\* C14: a volume lookup that fails with an error other than "not found"
\* aborts the run: once a DescribeVolumes call has returned such an error,
\* Start does not return nil, no bar is built and the plan stays empty.
C14_FailedVolumeLookupAborts ==
  lookupFailed =>
    /\ ~Succeeded
    /\ Bars = << >>
    /\ LtsToDelete = << >> /\ LcsToDelete = << >> /\ AmiToDelete = << >>
    /\ SnapToDelete = << >> /\ recommendations = << >>

\* C15: when the listing of the snapshots or a provider call of
\* populateNuggets fails, Start returns the error and there is no partial
\* plan: no bar is built, and LtsToDelete, LcsToDelete, AmiToDelete,
\* SnapToDelete and the recommendations are empty.  Start returns either
\* such an error or nil.
C15_ProviderErrorLeavesNoPlan ==
  /\ pc = "done" => startErr \in {"nil", "error"}
  /\ startErr = "error" =>
       /\ Bars = << >>
       /\ LtsToDelete = << >> /\ LcsToDelete = << >> /\ AmiToDelete = << >>
       /\ SnapToDelete = << >> /\ recommendations = << >>

\* C15 witness: Start has returned the error of the share-permission call
\* of populateNuggets, made for an image that maps the snapshot of a nugget.
C15_Witness ==
  /\ pc = "done"
  /\ startErr = "error"
  /\ images /= << >>
  /\ \E n \in 1..Len(Nuggets) : Nuggets[n].AMIIDs /= << >>

\* getSnapshots has returned nil (monitorQueue is started only on that path)
GetSnapshotsReturnedNil == pc \notin {"start", "paging", "wgqWait"} /\ monitor /= "idle"

\* the buildNuggets goroutines that have not returned
RunningTasks == {t \in 1..Len(tasks) : tasks[t].pc /= "done"}

\* C16: getSnapshots returns nil only after every buildNuggets goroutine it
\* has spawned has returned, one goroutine for each page that passed the
\* filter with a snapshot; while one of them runs, getSnapshots cannot
\* return, whether exp.queue is empty or not.
C16_ReturnsAfterEveryTask ==
  /\ GetSnapshotsReturnedNil =>
       /\ RunningTasks = {}
       /\ wgq = 0
       /\ queue = << >>
       /\ Len(tasks) = Cardinality({page \in 1..pageNum :
              \E i \in 1..Len(PageOf(page)) : Before(PageOf(page)[i].StartTime, cutoffDate)})
  /\ pc = "wgqWait" /\ RunningTasks /= {} => ~ENABLED getSnapshotsWait

\* C16 witness: getSnapshots has returned nil after two buildNuggets
\* goroutines, spawned for two pages, have returned.
C16_Witness ==
  /\ pc = "populate"
  /\ GetSnapshotsReturnedNil
  /\ Len(tasks) >= 2
  /\ Len(Nuggets) >= 1

\* the deletable members of the bars without volume, in the order in which
\* setRecommendations processes them
ProcessedDeletable ==
  Flatten([b \in 1..Len(Bars) |-> IF Bars[b].HasVol THEN << >> ELSE DeletableMembersOf(b)])

\* the places of seq that hold the first occurrence of their entry
FirstPlaces(seq) == {i \in 1..Len(seq) : \A j \in 1..(i - 1) : seq[j] /= seq[i]}

\* seq without the entries that occurred before, order kept
FirstOccurrences(seq) ==
  [k \in 1..Cardinality(FirstPlaces(seq)) |->
     seq[CHOOSE i \in FirstPlaces(seq) :
           Cardinality({j \in FirstPlaces(seq) : j <= i}) = k]]

NoDuplicate(seq) == \A i, j \in 1..Len(seq) : seq[i] = seq[j] => i = j

\* C17: after setRecommendations each of LtsToDelete, LcsToDelete,
\* AmiToDelete and SnapToDelete has no entry twice and holds the entries of
\* the processed records in the order of their first occurrence; the
\* snapshot id of a deletable record is in SnapToDelete exactly once.
C17_PlanListsDedupedInOrder ==
  Succeeded =>
    LET proc == ProcessedDeletable
    IN  /\ NoDuplicate(LtsToDelete) /\ NoDuplicate(LcsToDelete)
        /\ NoDuplicate(AmiToDelete) /\ NoDuplicate(SnapToDelete)
        /\ LtsToDelete = FirstOccurrences(Flatten([k \in 1..Len(proc) |-> proc[k].LTs]))
        /\ LcsToDelete = FirstOccurrences(Flatten([k \in 1..Len(proc) |-> proc[k].LCs]))
        /\ AmiToDelete = FirstOccurrences(Flatten([k \in 1..Len(proc) |-> proc[k].AMIIDs]))
        /\ SnapToDelete = FirstOccurrences([k \in 1..Len(proc) |-> proc[k].Snap.SnapshotId])
        /\ \A k \in 1..Len(proc) :
             Cardinality({i \in 1..Len(SnapToDelete) :
                            SnapToDelete[i] = proc[k].Snap.SnapshotId}) = 1

\* C17 witness: the plan is built from two deletable records that name the
\* same image, one of them with a launch configuration and a launch
\* template that both reference it.
C17_Witness ==
  /\ Succeeded
  /\ Len(SnapToDelete) >= 2
  /\ \E k, m \in 1..Len(ProcessedDeletable) :
       /\ k /= m
       /\ Range(ProcessedDeletable[k].AMIIDs) \cap Range(ProcessedDeletable[m].AMIIDs) /= {}
       /\ ProcessedDeletable[k].LCs /= << >>
       /\ ProcessedDeletable[k].LTs /= << >>

\* the input of makeBatchesStringPointer in task t: the deduplicated volume
\* ids of its page
BatchInput(t) ==
  FirstOccurrences([i \in 1..Len(tasks[t].nuggets) |-> tasks[t].nuggets[i].Snap.VolumeId])

\* C18: for a deduplicated list of N volume ids and a batch size B >= 1,
\* makeBatchesStringPointer gives ceil(N / B) batches, each of B ids but the
\* last, which has from 1 to B, and the batches in order make up the list.
C18_BatchesPartitionInput ==
  \A t \in 1..Len(tasks) : tasks[t].pc \in {"spawn", "wait"} =>
    LET input == BatchInput(t)
        batches == tasks[t].batchVols
        N == Len(input)
        B == volBatchSize
    IN  /\ B >= 1
        /\ Len(batches) = (N + B - 1) \div B
        /\ \A k \in 1..Len(batches) :
             /\ Len(batches[k]) >= 1 /\ Len(batches[k]) <= B
             /\ k < Len(batches) => Len(batches[k]) = B
        /\ Flatten(batches) = input

\* C18 witness: a list of ids was cut into two batches or more, the last
\* one smaller than the batch size.
C18_Witness ==
  \E t \in 1..Len(tasks) :
    /\ tasks[t].pc \in {"spawn", "wait"}
    /\ Len(tasks[t].batchVols) >= 2
    /\ volBatchSize >= 2
    /\ Len(tasks[t].batchVols[Len(tasks[t].batchVols)]) < volBatchSize

\* C19: only snapshots started strictly before the cutoff date become
\* nuggets: every snapshot of a queued page, of a page held by a buildNuggets
\* goroutine, of exp.Nuggets and of SnapToDelete has StartTime < cutoffDate.
C19_OnlySnapshotsBeforeCutoff ==
  /\ \A q \in 1..Len(queue) : \A i \in 1..Len(queue[q]) :
       queue[q][i].StartTime < cutoffDate
  /\ \A t \in 1..Len(tasks) : \A i \in 1..Len(tasks[t].nuggets) :
       tasks[t].nuggets[i].Snap.StartTime < cutoffDate
  /\ \A n \in 1..Len(Nuggets) : Nuggets[n].Snap.StartTime < cutoffDate
  /\ \A id \in Range(SnapToDelete) : SnapshotOf(id).StartTime < cutoffDate

\* C19 witness: the plan is built after the filter has passed a snapshot of
\* the day before the cutoff and has seen a page with a snapshot of the
\* cutoff date itself.
C19_Witness ==
  /\ Succeeded
  /\ SnapToDelete /= << >>
  /\ \E n \in 1..Len(Nuggets) : Nuggets[n].Snap.StartTime = cutoffDate - 1
  /\ \E page \in 1..pageNum : \E i \in 1..Len(PageOf(page)) :
       PageOf(page)[i].StartTime = cutoffDate

\* the place of a kind of entry in the order of deletion
PlanRank(kind) ==
  CASE kind = "lt" -> 1 [] kind = "lc" -> 2 [] kind = "ami" -> 3 [] kind = "snap" -> 4
    [] OTHER -> 0

\* the places of the recommendations that hold an entry of the plan
PlanEntries == {i \in 1..Len(recommendations) : PlanRank(recommendations[i].line) > 0}

\* C20: in the recommendations every launch-template entry comes before
\* every launch-configuration entry, these before every image entry, and
\* these before every snapshot entry.
C20_PlanSectionsInOrder ==
  \A i, j \in PlanEntries :
    PlanRank(recommendations[i].line) < PlanRank(recommendations[j].line) => i < j

\* C20 witness: the recommendations of a run list a launch template, a
\* launch configuration, an image and a snapshot.
C20_Witness ==
  /\ Succeeded
  /\ {PlanRank(recommendations[i].line) : i \in PlanEntries} = {1, 2, 3, 4}

\* the number of the line "snapshots were spared because their EBS volume
\* still exists" of the recommendations
SparedHasVol ==
  LET at == CHOOSE i \in 1..Len(recommendations) : recommendations[i].line = "sparedHasVol"
  IN  recommendations[at].n

\* C21: the number reported as spared because the volume still exists is the
\* number of nuggets in the bars with HasVol true: a bar of k snapshots
\* counts k.
C21_SparedCountsSnapshots ==
  Succeeded =>
    SparedHasVol = SumSeq([b \in 1..Len(Bars) |->
                     IF Bars[b].HasVol THEN Len(Bars[b].Nuggets) ELSE 0])

\* the snapshots of the pages handed to the callback that pass the filter
ConsumedFiltered ==
  {snap \in Range(Snapshots) :
     /\ \E page \in 1..pageNum : snap \in Range(PageOf(page))
     /\ snap.StartTime < cutoffDate}

\* C22: once getSnapshots has returned nil, exp.Nuggets holds exactly one
\* nugget for each snapshot of a consumed page that passed the filter: no
\* append of a buildNuggets goroutine is lost or made twice.
C22_NoAppendLost ==
  GetSnapshotsReturnedNil =>
    /\ {Nuggets[n].Snap : n \in 1..Len(Nuggets)} = ConsumedFiltered
    /\ Len(Nuggets) = Cardinality(ConsumedFiltered)

\* the volume ids that task t has sent to describeVolumes
LookedUpBy(t) == Range(Flatten(tasks[t].batchVols))

\* C23: no write to exp.realVols is lost.  While no lookup has failed, every
\* existing volume that a task has looked up is in exp.realVols when the
\* wait of the task on exp.wgv is over, and the task gives HasVol true to
\* every nugget of such a volume.
C23_NoRealVolLost ==
  ~lookupFailed =>
    \A t \in 1..Len(tasks) :
      /\ tasks[t].pc = "mark" =>
           LookedUpBy(t) \cap provVols \subseteq Range(realVols)
      /\ tasks[t].pc \in {"appendRead", "appendWrite"} =>
           \A i \in 1..Len(tasks[t].nuggets) :
             tasks[t].nuggets[i].Snap.VolumeId \in provVols => tasks[t].nuggets[i].HasVol

\* the describeVolumes goroutines of task t that have not returned
RunningBatches(t) == {b \in 1..Len(tasks[t].dv) : tasks[t].dv[b].pc /= "done"}

\* C24: a task marks HasVol only after every describeVolumes goroutine it
\* has started, one for each of its batches, has returned: a task at or past
\* the marking, or with a nugget whose HasVol is true, has no batch running.
C24_MarkAfterOwnBatches ==
  \A t \in 1..Len(tasks) :
    (\/ tasks[t].pc \in {"mark", "appendRead", "appendWrite"}
     \/ \E i \in 1..Len(tasks[t].nuggets) : tasks[t].nuggets[i].HasVol)
      => /\ RunningBatches(t) = {}
         /\ Len(tasks[t].dv) = Len(tasks[t].batchVols)

\* C24 witness: a task that started two batches is at the marking while a
\* batch of another task is running.
C24_Witness ==
  \E t, u \in 1..Len(tasks) :
    /\ t /= u
    /\ tasks[t].pc = "mark"
    /\ Len(tasks[t].dv) >= 2
    /\ RunningBatches(u) /= {}

\* C25: the wait of a task for its batches is local to the task: a task
\* that waits and whose describeVolumes goroutines have all returned can go
\* on, whatever batches of other tasks are still running.
C25_BarrierIsLocal ==
  \A t \in 1..Len(tasks) :
    tasks[t].pc = "wait" /\ RunningBatches(t) = {} => ENABLED buildNuggetsWait(t)

\* the tasks that have not received their page yet
ReceivingTasks == {t \in 1..Len(tasks) : tasks[t].pc = "recv"}

\* the pages, as lists of snapshots, that running tasks hold
HeldPages ==
  {[i \in 1..Len(tasks[t].nuggets) |-> tasks[t].nuggets[i].Snap] :
     t \in RunningTasks \ ReceivingTasks}

\* one task for each page handed to the callback that has a snapshot older
\* than the cutoff, and none for the other pages; as many pages in exp.queue
\* as tasks that have not received; a task that has not received can
\* receive, and never from the closed channel; the pages in the queue and
\* the pages held by running tasks are all different, and none is empty
PagesAndTasksMatch ==
  /\ Len(tasks) = Cardinality({page \in 1..pageNum :
         \E i \in 1..Len(PageOf(page)) : PageOf(page)[i].StartTime < cutoffDate})
  /\ Len(queue) = Cardinality(ReceivingTasks)
  /\ \A t \in ReceivingTasks : ENABLED buildNuggetsRecv(t) /\ ~queueClosed
  /\ \A q \in 1..Len(queue) : queue[q] /= << >> /\ queue[q] \notin HeldPages
  /\ \A q, r \in 1..Len(queue) : queue[q] = queue[r] => q = r
  /\ Cardinality(HeldPages) = Cardinality(RunningTasks \ ReceivingTasks)
  /\ << >> \notin HeldPages

\* C26: every page pushed onto exp.queue is received by exactly one
\* buildNuggets goroutine and every goroutine receives exactly one page; a
\* page without a snapshot older than the cutoff is not queued and gets no
\* goroutine; in the end the queue is empty and no goroutine waits for a
\* page.
C26_EachPageConsumedOnce ==
  /\ []PagesAndTasksMatch
  /\ <>[](queue = << >> /\ ReceivingTasks = {})

\* C26 witness: two pages were queued and received, after a page without a
\* snapshot older than the cutoff was handed to the callback.
C26_Witness ==
  /\ pageNum = NumPages
  /\ pageNum > Len(tasks)
  /\ Len(tasks) >= 2
  /\ queue = << >>
  /\ ReceivingTasks = {}

\* every image of the index that maps the snapshot of a nugget is among the
\* AMIIDs of the nugget
CorrelatedOverAll ==
  \A n \in 1..Len(Nuggets) :
    \A image \in ImagesMapping(Nuggets[n].Snap.SnapshotId) :
      image.ImageId \in Range(Nuggets[n].AMIIDs)

\* C27: the stages of Start follow one another.  From the start of
\* populateNuggets on no buildNuggets goroutine is running and exp.queue is
\* empty; until then no nugget is enriched by populateNuggets; addBars
\* starts on nuggets that populateNuggets has all gone through and with no
\* bar; setRecommendations starts with every nugget in a bar and no
\* recommendations.
C27_StagesInOrder ==
  /\ (pc \in {"populate", "addBars", "setRecommendations"} \/ Succeeded) =>
       RunningTasks = {} /\ queue = << >> /\ wgq = 0
  /\ pc \in {"start", "paging", "wgqWait", "populate"} =>
       /\ \A n \in 1..Len(Nuggets) : Nuggets[n].AMIIDs = << >> /\ Nuggets[n].parentBar = 0
       /\ images = << >> /\ Bars = << >> /\ recommendations = << >>
  /\ pc = "addBars" => CorrelatedOverAll /\ Bars = << >> /\ recommendations = << >>
  /\ pc = "setRecommendations" =>
       /\ CorrelatedOverAll
       /\ \A n \in 1..Len(Nuggets) : Nuggets[n].parentBar \in 1..Len(Bars)
       /\ recommendations = << >>
  /\ Succeeded => recommendations /= << >>

\* C27 witness: Start has returned nil after two buildNuggets goroutines,
\* a correlation that found an image for a nugget, and the grouping.
C27_Witness ==
  /\ Succeeded
  /\ Len(tasks) >= 2
  /\ Len(Bars) >= 1
  /\ \E n \in 1..Len(Nuggets) : Nuggets[n].AMIIDs /= << >>
  /\ SnapToDelete /= << >>

\* C28: after populateNuggets, the LCs and LTs of a nugget whose snapshot
\* is mapped by more than one image hold the launch configurations and
\* launch templates matched for every one of these images.
C28_MatchesOfEveryImageKept ==
  Populated =>
    \A n \in 1..Len(Nuggets) :
      Cardinality(ImagesMapping(Nuggets[n].Snap.SnapshotId)) > 1 =>
        /\ MatchedLcNames(Nuggets[n].Snap.SnapshotId) \subseteq Range(Nuggets[n].LCs)
        /\ MatchedLtNames(Nuggets[n].Snap.SnapshotId) \subseteq Range(Nuggets[n].LTs)

\* C29: when every provider call returns, intake ends: getSnapshots
\* returns, every buildNuggets goroutine passes its wait on exp.wgv and
\* returns, and once getSnapshots has been called exp.queue is closed in
\* the end, by monitorQueue, after every goroutine is done, and stays so.
C29_IntakeTerminates ==
  /\ <>[](pc \notin {"start", "paging", "wgqWait"})
  /\ <>[](RunningTasks = {})
  /\ [](queueClosed => RunningTasks = {} /\ monitor = "done")
  /\ <>(pc = "paging") => <>[]queueClosed

\* C30: once Start has returned, with nil or with an error, no buildNuggets
\* or describeVolumes goroutine of the run is running, and exp.Nuggets and
\* exp.realVols do not change any more.
C30_NothingRunsAfterReturn ==
  [][pc = "done" =>
       /\ RunningTasks = {}
       /\ Nuggets' = Nuggets
       /\ realVols' = realVols]_vars

\* The outcome of the run, for the same provider and inputs, in which every
\* goroutine runs to its end before the next one starts: the nuggets of the
\* consumed pages in page order, HasVol true for the volumes that exist,
\* then populateNuggets, addBars and the lists of setRecommendations.
SerialNuggets ==
  Flatten([page \in 1..pageNum |->
     LET filtered == SelectSeq(PageOf(page), LAMBDA snap : Before(snap.StartTime, cutoffDate))
     IN  [i \in 1..Len(filtered) |->
            [NewNugget(filtered[i]) EXCEPT !.HasVol = filtered[i].VolumeId \in provVols]]])

SerialGrouped ==
  addBarsFrom([Bars |-> << >>,
               Nuggets |-> populateLoop(SerialNuggets, images, lcs, lts, asgs, 0).Nuggets], 1)

SerialDeleted ==
  LET del == nugsToDelete(SerialGrouped.Bars, SerialGrouped.Nuggets)
  IN  [k \in 1..Len(del) |-> SerialGrouped.Nuggets[del[k]]]

\* C31: the outcome of Start does not depend on the interleaving of the
\* goroutines.  While no lookup has failed, a run that returns nil has the
\* HasVol of every nugget and of every bar, the entries of the four plan
\* lists and the total of GB of the run, on the same provider and inputs,
\* whose goroutines run one after the other.
C31_OutcomeIndependentOfScheduling ==
  Succeeded /\ ~lookupFailed =>
    /\ {<< Nuggets[n].Snap.SnapshotId, Nuggets[n].HasVol >> : n \in 1..Len(Nuggets)}
         = {<< SerialGrouped.Nuggets[n].Snap.SnapshotId, SerialGrouped.Nuggets[n].HasVol >> :
              n \in 1..Len(SerialGrouped.Nuggets)}
    /\ {<< Bars[b].VolumeId, Bars[b].HasVol >> : b \in 1..Len(Bars)}
         = {<< SerialGrouped.Bars[b].VolumeId, SerialGrouped.Bars[b].HasVol >> :
              b \in 1..Len(SerialGrouped.Bars)}
    /\ Range(SnapToDelete) = {SerialDeleted[k].Snap.SnapshotId : k \in 1..Len(SerialDeleted)}
    /\ Range(AmiToDelete) = UNION {Range(SerialDeleted[k].AMIIDs) : k \in 1..Len(SerialDeleted)}
    /\ Range(LcsToDelete) = UNION {Range(SerialDeleted[k].LCs) : k \in 1..Len(SerialDeleted)}
    /\ Range(LtsToDelete) = UNION {Range(SerialDeleted[k].LTs) : k \in 1..Len(SerialDeleted)}
    /\ TotalGbs = totalGbsOf(SerialGrouped.Bars, SerialGrouped.Nuggets)

\* the run whose goroutines ran one after the other is a run of Start: it
\* returns nil with exactly this outcome, here with no volume at the
\* provider, two pages enriched and a plan
SerialOutcomeReached ==
  /\ Succeeded /\ ~lookupFailed
  /\ Len(tasks) >= 2 /\ provVols = {} /\ maxPages = 1 /\ SnapToDelete /= << >>
  /\ Nuggets = SerialGrouped.Nuggets
  /\ Bars = SerialGrouped.Bars
  /\ TotalGbs = totalGbsOf(SerialGrouped.Bars, SerialGrouped.Nuggets)

====
